---- MODULE Spec2Model ----
(***************************************************************************)
(* A model of the chat client's transcript view (ChatArea), its composer,  *)
(* its typing-indicator debouncer and its room resolver.                   *)
(*                                                                         *)
(* Strings are sequences of one-character strings, so that the string      *)
(* operations the code relies on (sort, join, trim, toString) are computed *)
(* and not assumed.  Time is counted in milliseconds; Tick advances it by  *)
(* the granularity of the two typing delays.                               *)
(***************************************************************************)
EXTENDS Integers, Sequences, FiniteSets, TLC

(***************************************************************************)
(* Bounds of the model.                                                    *)
(***************************************************************************)
MaxSetups == 2
MaxSends == 2
MaxMsgs == 2
MaxBacklog == 1
MaxStage == 1
MaxExpiry == 2
MaxIdLen == 2
MaxDates == 3
MaxCloses == 2

(***************************************************************************)
(* Strings.                                                                *)
(***************************************************************************)
\* The characters the model uses, in increasing UTF-16 code unit order.
Alphabet == <<" ", "-", "1", "2", "a", "b", "c", "d", "e", "g", "h", "i", "j",
              "l", "m", "n", "o", "r", "u", "w", "y">>

CodeUnit(c) == CHOOSE i \in 1..Len(Alphabet) : Alphabet[i] = c

\* a < b as JavaScript compares strings: by code units, a proper prefix first.
RECURSIVE StrLess(_, _)
StrLess(a, b) ==
  IF b = <<>> THEN FALSE
  ELSE IF a = <<>> THEN TRUE
  ELSE IF Head(a) = Head(b) THEN StrLess(Tail(a), Tail(b))
  ELSE CodeUnit(Head(a)) < CodeUnit(Head(b))

\* Array.prototype.sort() without a comparator, on a two-element array.
SortPair(x, y) == IF StrLess(y, x) THEN <<y, x>> ELSE <<x, y>>

\* Array.prototype.join(sep).
RECURSIVE Join(_, _)
Join(parts, sep) ==
  IF parts = <<>> THEN <<>>
  ELSE IF Len(parts) = 1 THEN parts[1]
  ELSE parts[1] \o sep \o Join(Tail(parts), sep)

\* String.prototype.trim(): white space removed from both ends.
RECURSIVE TrimStart(_)
TrimStart(s) ==
  IF s # <<>> /\ Head(s) = " " THEN TrimStart(Tail(s)) ELSE s

RECURSIVE TrimEnd(_)
TrimEnd(s) ==
  IF s # <<>> /\ s[Len(s)] = " " THEN TrimEnd(SubSeq(s, 1, Len(s) - 1)) ELSE s

Trim(s) == TrimEnd(TrimStart(s))

\* Number.prototype.toString() of a natural number: its decimal digits.
Digit(d) == <<"0", "1", "2", "3", "4", "5", "6", "7", "8", "9">>[d + 1]

RECURSIVE NumToString(_)
NumToString(n) ==
  IF n < 10 THEN <<Digit(n)>> ELSE NumToString(n \div 10) \o <<Digit(n % 10)>>

(***************************************************************************)
(* Room Resolver: setupRealtime's first statement.                         *)
(***************************************************************************)
\* A mis-resolution: the two ids are joined in the caller's order.
RoomIdUnsorted(userId, channelId, dmId) ==
  IF channelId # <<>>
  THEN <<"c", "h", "a", "n", "n", "e", "l", "-">> \o channelId
  ELSE <<"d", "m", "-">> \o Join(<<userId, dmId>>, <<"-">>)

RoomId(userId, channelId, dmId) ==
  IF channelId # <<>>
  THEN <<"c", "h", "a", "n", "n", "e", "l", "-">> \o channelId
  ELSE <<"d", "m", "-">> \o Join(SortPair(userId, dmId), <<"-">>)

(***************************************************************************)
(* Identities, rooms and the values the environment supplies.              *)
(***************************************************************************)
NoUser == [id |-> <<>>, displayName |-> <<>>]
Me == [id |-> <<"u", "1">>, displayName |-> <<"a", "n", "n">>]
Peer == [id |-> <<"u", "2">>, displayName |-> <<"b", "o", "b">>]

\* Sidebar's channels and directMessages (two channels and one peer of them).
General == <<"g", "e", "n", "e", "r", "a", "l">>
Channels == {General, <<"r", "a", "n", "d", "o", "m">>}
DMs == {<<"j", "o", "h", "n">>}

\* Values of the composer's text input.
Texts == {<<>>, <<" ">>, <<"h", "i">>}

\* Files the user may select, and the selections of one file dialog.
Files == {<<"a">>, <<"b">>}
Selections == {<<f>> : f \in Files} \cup {<<<<"a">>, <<"b">>>>}

\* Values Date.now() may return.
ClockValues == {1, 2}

\* user.displayName || ... || fallback
DisplayName(u, fallback) ==
  IF u.displayName # <<>> THEN u.displayName ELSE fallback

Anonymous == <<"a", "n", "o", "n">>
You == <<"y", "o", "u">>
Someone == <<"o", "n", "e">>

(***************************************************************************)
(* State.                                                                  *)
(***************************************************************************)
VARIABLES
  channelId,        \* prop: App's selectedChannel (<<>> when none)
  dmId,             \* prop: App's selectedDM (<<>> when none)
  user,             \* useState: the signed-in user, NoUser for null
  loading,          \* useState
  message,          \* useState: the composer's text
  messages,         \* useState: the transcript
  typingUsers,      \* useState: names shown as typing
  attachments,      \* useState: the attachment stage
  uploading,        \* useState: the busy flag
  channelRef,       \* useRef: index in setups of the current channel, 0 for null
  typingTimeoutRef, \* useRef: ms left on the armed stop timer, NoTimer for null
  setups,           \* the setupRealtime calls made so far, one per effect run
  expiryTimers,     \* pending auto-expiry timeouts: [name, left, room], room
                    \* being history: the room shown when it was armed
  pubs,             \* chat publishes in flight: [sid, content, attachments]
  sent,             \* every chat payload handed to publish, by send number
  upload,           \* the handleFileUpload call in flight: [files, got, room],
                    \* room being history: the room shown when it started
  out,              \* history: what the last step emitted (see Outputs)
  lastSignal,       \* history: the last typing signal published, if any
  rr,               \* room resolver harness: [a, b, ab, ba]
  dg,               \* date grouping harness: [today, dates, show]
  nt                \* a MessageNotification: see IdleNT

chatVars == <<channelId, dmId, user, loading, message, messages, typingUsers,
              attachments, uploading, channelRef, typingTimeoutRef, setups,
              expiryTimers, pubs, sent, upload, out, lastSignal>>

vars == <<chatVars, rr, dg, nt>>

NoTimer == -1
NoUpload == [files |-> <<>>, got |-> <<>>, room |-> <<>>]
IdleRR == [a |-> <<>>, b |-> <<>>, ab |-> <<>>, ba |-> <<>>]
IdleDG == [today |-> [y |-> 0, m |-> 0, d |-> 0], dates |-> <<>>, show |-> <<>>,
           rendered |-> FALSE]

\* No notification: not mounted, hidden, no timer armed (NoTimer), no delayed
\* close pending, onClose never invoked.
IdleNT == [mounted |-> FALSE, isVisible |-> FALSE, timer |-> NoTimer,
           dismissTimer |-> NoTimer, closeTimers |-> <<>>, closed |-> 0,
           closedAfterDiscard |-> FALSE]

\* The state of a freshly mounted ChatArea under App's initial selection.
ChatInit ==
  /\ channelId = General
  /\ dmId = <<>>
  /\ user = NoUser
  /\ loading = TRUE
  /\ message = <<>>
  /\ messages = <<>>
  /\ typingUsers = <<>>
  /\ attachments = <<>>
  /\ uploading = FALSE
  /\ channelRef = 0
  /\ typingTimeoutRef = NoTimer
  /\ setups = <<>>
  /\ expiryTimers = <<>>
  /\ pubs = {}
  /\ sent = <<>>
  /\ upload = NoUpload
  /\ out = "none"
  /\ lastSignal = "none"

(***************************************************************************)
(* The realtime effect: its cleanup and the synchronous start of           *)
(* setupRealtime (up to the await of channel.subscribe).                   *)
(***************************************************************************)
\* return () => { channel?.unsubscribe(); channelRef.current = null }
Cleanup(ss, ref) ==
  IF ref = 0 THEN ss
  ELSE [ss EXCEPT ![ref].released = TRUE, ![ref].subscribed = FALSE]


\* A faulty variant: the effect sets up a channel whatever its dependencies.
RunsSetupAlways(u, c, d) == TRUE

\* if (!user?.id || (!channelId && !dmId)) return
RunsSetup(u, c, d) == u.id # <<>> /\ (c # <<>> \/ d # <<>>)

NewSetup(u, c, d) ==
  [room |-> RoomId(u.id, c, d), user |-> u, pc |-> "subscribing",
   released |-> FALSE, subscribed |-> FALSE]

\* One run of the effect for the dependencies (u, c, d): the previous run's
\* cleanup, then the new body.
RealtimeEffect(u, c, d) ==
  LET cleaned == Cleanup(setups, channelRef) IN
  IF RunsSetup(u, c, d)
  THEN /\ setups' = Append(cleaned, NewSetup(u, c, d))
       /\ channelRef' = Len(setups) + 1
  ELSE /\ setups' = cleaned
       /\ channelRef' = 0


\* A faulty variant: the clear effect empties the transcript and the typing set
\* and keeps the stage.
ClearEffectKeepsStage ==
  /\ messages' = <<>>
  /\ typingUsers' = <<>>
  /\ UNCHANGED attachments

\* useEffect(() => { setMessages([]); setAttachments([]); setTypingUsers([]) })
ClearEffect ==
  /\ messages' = <<>>
  /\ attachments' = <<>>
  /\ typingUsers' = <<>>

\* A change of the props (channelId, dmId): both effects run in one commit.
SelectRoom(c, d) ==
  /\ <<c, d>> # <<channelId, dmId>>
  /\ RunsSetup(user, c, d) => Len(setups) < MaxSetups
  /\ channelId' = c
  /\ dmId' = d
  /\ RealtimeEffect(user, c, d)
  /\ ClearEffect
  /\ out' = "none"
  /\ UNCHANGED <<user, loading, message, uploading, typingTimeoutRef,
                 expiryTimers, pubs, sent, upload, lastSignal,
                 rr, dg, nt>>

\* App.handleChannelSelect: setSelectedChannel(channelId); setSelectedDM('')
HandleChannelSelect(c) == SelectRoom(c, <<>>)


\* A faulty variant: selecting a direct message keeps the channel selection.
HandleDMSelectKeepsChannel(d) == SelectRoom(channelId, d)

\* App.handleDMSelect: setSelectedDM(dmId); setSelectedChannel('')
HandleDMSelect(d) == SelectRoom(<<>>, d)

\* The states blink.auth.onAuthStateChanged delivers to a mounted ChatArea.
\* App renders ChatArea only while a user is signed in and not loading, so
\* the view never sees the user go away: it is unmounted instead.
AuthStates == {[user |-> Me, isLoading |-> FALSE]}

\* The callback: setUser, setLoading.  The realtime effect runs again when
\* the user's identity fields change.

AuthStateChanged(st) ==
  /\ <<st.user, st.isLoading>> # <<user, loading>>
  /\ RunsSetup(st.user, channelId, dmId) => Len(setups) < MaxSetups
  /\ user' = st.user
  /\ loading' = st.isLoading
  /\ IF st.user # user
     THEN RealtimeEffect(st.user, channelId, dmId)
     ELSE UNCHANGED <<setups, channelRef>>
  /\ out' = "none"
  /\ UNCHANGED <<channelId, dmId, message, messages, typingUsers, attachments,
                 uploading, typingTimeoutRef, expiryTimers, pubs, sent, upload, lastSignal,
                 rr, dg, nt>>

(***************************************************************************)
(* setupRealtime after its awaits.                                         *)
(***************************************************************************)
Message(id, content, userName, isOwn, atts, origin) ==
  [id |-> id, content |-> content, userName |-> userName, isOwn |-> isOwn,
   attachments |-> atts, origin |-> origin]

\* The Message built from a realtime or backlog event by the closure of the
\* effect run whose user is u.  origin is history: the number of the send
\* whose payload the event carries, 0 for an event of another client.
ToMessage(e, u) ==
  Message(e.id, e.content,
          IF e.displayName # <<>> THEN e.displayName ELSE Anonymous,
          e.userId = u.id, e.attachments, e.origin)

WelcomeId == <<"w", "e", "l", "c", "o", "m", "e", "-", "1">>
WelcomeMessage ==
  Message(WelcomeId, <<"w", "e", "l", "c", "o", "m", "e">>,
          <<"s", "y", "s">>, FALSE, <<>>, 0)

\* The id the transport gives the event of send number s.
ServerId(s) == IF s = 1 THEN <<"1">> ELSE <<"m">> \o NumToString(s)

\* The event by which the transport delivers the payload of send s.
Echo(s) ==
  [id |-> ServerId(s), userId |-> sent[s].user.id,
   displayName |-> DisplayName(sent[s].user, Anonymous),
   content |-> sent[s].content, attachments |-> sent[s].attachments,
   origin |-> s]

\* A chat event of another participant.
PeerChat ==
  [id |-> <<"m", "0">>, userId |-> Peer.id, displayName |-> Peer.displayName,
   content |-> <<"y", "o">>, attachments |-> <<>>, origin |-> 0]

\* The chat events the transport may deliver on the channel of setup g.
ChatEvents(g) ==
  {PeerChat} \cup {Echo(s) : s \in {t \in 1..Len(sent) : sent[t].room = setups[g].room}}

\* The backlogs getMessages may return for setup g: events with distinct ids.
DistinctIds(es) ==
  \A i, j \in 1..Len(es) : es[i].id = es[j].id => i = j

Backlogs(g) ==
  {es \in UNION {[1..n -> ChatEvents(g)] : n \in 0..MaxBacklog} : DistinctIds(es)}

\* await channel.subscribe(...) resolves, then channel.onMessage(...) and the
\* call of getMessages.  When the cleanup has already called unsubscribe, the
\* transport may or may not leave the channel subscribed.
SubscribeOk(g, on) ==
  /\ setups[g].pc = "subscribing"
  /\ ~setups[g].released => on
  /\ setups' = [setups EXCEPT ![g].pc = "fetching", ![g].subscribed = on]
  /\ out' = "none"
  /\ UNCHANGED <<channelId, dmId, user, loading, message, messages, typingUsers,
                 attachments, uploading, channelRef, typingTimeoutRef,
                 expiryTimers, pubs, sent, upload, lastSignal,
                 rr, dg, nt>>

\* await channel.subscribe(...) rejects: setupRealtime().catch(console.error)
SubscribeFail(g) ==
  /\ setups[g].pc = "subscribing"
  /\ setups' = [setups EXCEPT ![g].pc = "failed"]
  /\ out' = "none"
  /\ UNCHANGED <<channelId, dmId, user, loading, message, messages, typingUsers,
                 attachments, uploading, channelRef, typingTimeoutRef,
                 expiryTimers, pubs, sent, upload, lastSignal,
                 rr, dg, nt>>

\* const recentMessages = await channel.getMessages({ limit: 50 }) resolves.
BacklogOk(g, es) ==
  /\ setups[g].pc = "fetching"
  /\ messages' = [i \in 1..Len(es) |-> ToMessage(es[i], setups[g].user)]
  /\ setups' = [setups EXCEPT ![g].pc = "done"]
  /\ out' = "none"
  /\ UNCHANGED <<channelId, dmId, user, loading, message, typingUsers,
                 attachments, uploading, channelRef, typingTimeoutRef,
                 expiryTimers, pubs, sent, upload, lastSignal,
                 rr, dg, nt>>


\* A faulty variant: a failed fetch leaves an empty transcript.
BacklogFailEmpty(g) ==
  /\ setups[g].pc = "fetching"
  /\ messages' = <<>>
  /\ setups' = [setups EXCEPT ![g].pc = "done"]
  /\ out' = "none"
  /\ UNCHANGED <<channelId, dmId, user, loading, message, typingUsers,
                 attachments, uploading, channelRef, typingTimeoutRef,
                 expiryTimers, pubs, sent, upload, lastSignal,
                 rr, dg, nt>>

\* getMessages rejects: the welcome message replaces the transcript.
BacklogFail(g) ==
  /\ setups[g].pc = "fetching"
  /\ messages' = <<WelcomeMessage>>
  /\ setups' = [setups EXCEPT ![g].pc = "done"]
  /\ out' = "none"
  /\ UNCHANGED <<channelId, dmId, user, loading, message, typingUsers,
                 attachments, uploading, channelRef, typingTimeoutRef,
                 expiryTimers, pubs, sent, upload, lastSignal,
                 rr, dg, nt>>

(***************************************************************************)
(* channel.onMessage's callback.                                           *)
(***************************************************************************)
HasId(prev, id) == \E i \in 1..Len(prev) : prev[i].id = id

\* A faulty variant: the live message is appended without the duplicate check.
AppendAlways(prev, m) == Append(prev, m)

\* setMessages(prev => prev.some(msg => msg.id === newMessage.id)
\*                       ? prev : [...prev, newMessage])
AppendUnlessPresent(prev, m) ==
  IF HasId(prev, m.id) THEN prev ELSE Append(prev, m)

\* The callback is registered once subscribe has resolved, and runs while the
\* transport delivers on the channel.
Delivers(g) == setups[g].pc \in {"fetching", "done"} /\ setups[g].subscribed

\* realtimeMessage.type === 'chat'
OnMessageChat(g, e) ==
  /\ Delivers(g)
  /\ messages' = AppendUnlessPresent(messages, ToMessage(e, setups[g].user))
  /\ Len(messages') <= MaxMsgs
  /\ out' = IF messages' = messages THEN "discarded" ELSE "none"
  /\ UNCHANGED <<channelId, dmId, user, loading, message, typingUsers,
                 attachments, uploading, channelRef, typingTimeoutRef, setups,
                 expiryTimers, pubs, sent, upload, lastSignal,
                 rr, dg, nt>>

\* The typing events the transport may deliver.
TypingEvents ==
  {[userId |-> u.id, displayName |-> u.displayName, isTyping |-> t] :
     u \in {Me, Peer}, t \in BOOLEAN}

Without(names, n) == SelectSeq(names, LAMBDA x : x # n)

Includes(names, n) == \E i \in 1..Len(names) : names[i] = n

ExpiryMs == 3000

\* realtimeMessage.type === 'typing'
OnMessageTyping(g, e) ==
  LET userName == IF e.displayName # <<>> THEN e.displayName ELSE Someone IN
  /\ Delivers(g)
  /\ IF e.userId # setups[g].user.id
     THEN /\ typingUsers' =
               IF e.isTyping
               THEN IF Includes(typingUsers, userName) THEN typingUsers
                    ELSE Append(typingUsers, userName)
               ELSE Without(typingUsers, userName)
          /\ IF e.isTyping
             THEN /\ Len(expiryTimers) < MaxExpiry
                  /\ expiryTimers' =
                       Append(expiryTimers, [name |-> userName, left |-> ExpiryMs,
                                             room |-> RoomId(user.id, channelId, dmId)])
             ELSE UNCHANGED expiryTimers
     ELSE UNCHANGED <<typingUsers, expiryTimers>>
  /\ out' = "none"
  /\ UNCHANGED <<channelId, dmId, user, loading, message, messages,
                 attachments, uploading, channelRef, typingTimeoutRef, setups,
                 pubs, sent, upload, lastSignal,
                 rr, dg, nt>>

\* A faulty variant: the timeout leaves the typing set as it is.
ExpireNothing(names, n) == names

\* setTypingUsers(prev => prev.filter(name => name !== userName))
Expire(names, n) == Without(names, n)

\* setTimeout(() => setTypingUsers(...), 3000) fires.
ExpiryFire(i) ==
  /\ i \in 1..Len(expiryTimers)
  /\ expiryTimers[i].left = 0
  /\ typingUsers' = Expire(typingUsers, expiryTimers[i].name)
  /\ out' = IF typingUsers' # typingUsers THEN "expired" ELSE "none"
  /\ expiryTimers' = [k \in 1..(Len(expiryTimers) - 1) |->
                        IF k < i THEN expiryTimers[k] ELSE expiryTimers[k + 1]]
  /\ UNCHANGED <<channelId, dmId, user, loading, message, messages,
                 attachments, uploading, channelRef, typingTimeoutRef, setups,
                 pubs, sent, upload, lastSignal,
                 rr, dg, nt>>

(***************************************************************************)
(* The composer: typing signals.                                           *)
(***************************************************************************)
StopDelayMs == 1000

\* sendTypingIndicator(isTyping): the signal is published unless there is no
\* channel or no user.  The value is what the call emits.
SendTypingIndicator(isTyping) ==
  IF channelRef = 0 \/ user.id = <<>> THEN "none"
  ELSE IF isTyping THEN "start" ELSE "stop"

\* if (value.trim() && !typingTimeoutRef.current) sendTypingIndicator(true)
StartsTyping(value) == Trim(value) # <<>> /\ typingTimeoutRef = NoTimer

\* handleMessageChange: the input's onChange.
HandleMessageChange(value) ==
  /\ ~loading
  /\ value # message
  /\ message' = value
  /\ out' = IF StartsTyping(value) THEN SendTypingIndicator(TRUE) ELSE "none"
  /\ lastSignal' = IF out' \in {"start", "stop"} THEN out' ELSE lastSignal
  /\ typingTimeoutRef' = StopDelayMs
  /\ UNCHANGED <<channelId, dmId, user, loading, messages, typingUsers,
                 attachments, uploading, channelRef, setups, expiryTimers, pubs,
                 sent, upload, rr, dg, nt>>

\* The stop timer fires: sendTypingIndicator(false); the ref is reset.
StopTimerFire ==
  /\ typingTimeoutRef = 0
  /\ out' = SendTypingIndicator(FALSE)
  /\ lastSignal' = IF out' \in {"start", "stop"} THEN out' ELSE lastSignal
  /\ typingTimeoutRef' = NoTimer
  /\ UNCHANGED <<channelId, dmId, user, loading, message, messages, typingUsers,
                 attachments, uploading, channelRef, setups, expiryTimers, pubs,
                 sent, upload, rr, dg, nt>>

\* Time passes, up to the next timer that is due.
TickMs == StopDelayMs

Tick ==
  /\ typingTimeoutRef # NoTimer \/ expiryTimers # <<>>
  /\ typingTimeoutRef # 0
  /\ \A i \in 1..Len(expiryTimers) : expiryTimers[i].left # 0
  /\ typingTimeoutRef' =
       IF typingTimeoutRef = NoTimer THEN NoTimer ELSE typingTimeoutRef - TickMs
  /\ expiryTimers' = [i \in 1..Len(expiryTimers) |->
                        [expiryTimers[i] EXCEPT !.left = @ - TickMs]]
  /\ out' = "none"
  /\ UNCHANGED <<channelId, dmId, user, loading, message, messages, typingUsers,
                 attachments, uploading, channelRef, setups, pubs, sent, upload, lastSignal,
                 rr, dg, nt>>

(***************************************************************************)
(* The composer: sending.                                                  *)
(***************************************************************************)
\* A faulty variant: the text is tested without trimming it.
SendRejectedUntrimmed ==
  (message = <<>> /\ attachments = <<>>) \/ user.id = <<>> \/ channelRef = 0

\* if ((!message.trim() && attachments.length === 0) || !user?.id
\*     || !channelRef.current) return
SendRejected ==
  (Trim(message) = <<>> /\ attachments = <<>>) \/ user.id = <<>> \/ channelRef = 0

\* handleSendMessage up to the await of channelRef.current.publish('chat', ...).
\* The payload is the text and the stage of the render the handler belongs to.
HandleSendMessage ==
  /\ IF SendRejected
     THEN /\ out' = "rejected"
          /\ UNCHANGED <<pubs, sent>>
     ELSE /\ Len(sent) < MaxSends
          /\ pubs' = pubs \cup {[sid |-> Len(sent) + 1, content |-> message,
                                 attachments |-> attachments, user |-> user]}
          /\ sent' = Append(sent, [content |-> message,
                                   attachments |-> attachments, user |-> user,
                                   room |-> setups[channelRef].room])
          /\ out' = "chat"
  /\ UNCHANGED <<channelId, dmId, user, loading, message, messages, typingUsers,
                 attachments, uploading, channelRef, typingTimeoutRef, setups,
                 expiryTimers, upload, lastSignal,
                 rr, dg, nt>>

\* handleKeyPress: Enter without Shift in the text input.
HandleKeyPress ==
  /\ ~loading
  /\ HandleSendMessage

\* The send button: disabled={(!message.trim() && attachments.length === 0)
\*                            || uploading}
SendButtonClick ==
  /\ ~loading
  /\ ~((Trim(message) = <<>> /\ attachments = <<>>) \/ uploading)
  /\ HandleSendMessage


\* A faulty variant: the stage is kept when publish resolves.
PublishOkKeepsStage(p) ==
  /\ p \in pubs
  /\ pubs' = pubs \ {p}
  /\ message' = <<>>
  /\ out' = SendTypingIndicator(FALSE)
  /\ lastSignal' = IF out' \in {"start", "stop"} THEN out' ELSE lastSignal
  /\ UNCHANGED <<channelId, dmId, user, loading, messages, typingUsers,
                 attachments, uploading, channelRef, typingTimeoutRef, setups,
                 expiryTimers, sent, upload, rr, dg, nt>>

\* publish resolves: setMessage(''); setAttachments([]);
\* sendTypingIndicator(false)
PublishOk(p) ==
  /\ p \in pubs
  /\ pubs' = pubs \ {p}
  /\ message' = <<>>
  /\ attachments' = <<>>
  /\ out' = SendTypingIndicator(FALSE)
  /\ lastSignal' = IF out' \in {"start", "stop"} THEN out' ELSE lastSignal
  /\ UNCHANGED <<channelId, dmId, user, loading, messages, typingUsers,
                 uploading, channelRef, typingTimeoutRef, setups, expiryTimers,
                 sent, upload, rr, dg, nt>>

\* A faulty variant: the fallback is built from the composer as it is when publish
\* rejects, not as it was when send was invoked.
FallbackFromComposer(p, now) ==
  /\ messages' = Append(messages,
                   Message(NumToString(now), message,
                           DisplayName(p.user, You), TRUE, attachments, p.sid))
  /\ message' = <<>>
  /\ attachments' = <<>>

\* The catch block: the fallback message is appended; setMessage('');
\* setAttachments([]).  now is the value of Date.now().
Fallback(p, now) ==
  /\ messages' = Append(messages,
                   Message(NumToString(now), p.content,
                           DisplayName(p.user, You), TRUE, p.attachments, p.sid))
  /\ message' = <<>>
  /\ attachments' = <<>>

\* publish rejects.
PublishFail(p, now) ==
  /\ p \in pubs
  /\ Len(messages) < MaxMsgs
  /\ pubs' = pubs \ {p}
  /\ Fallback(p, now)
  /\ out' = "fallback"
  /\ UNCHANGED <<channelId, dmId, user, loading, typingUsers, uploading,
                 channelRef, typingTimeoutRef, setups, expiryTimers, sent,
                 upload, lastSignal,
                 rr, dg, nt>>

(***************************************************************************)
(* The attachment stage.                                                   *)
(***************************************************************************)
Attachment(f) == [name |-> f, url |-> <<"/">> \o f]

\* handleFileUpload up to its first await; the attach button is disabled
\* while uploading.
HandleFileUpload(files) ==
  /\ ~loading
  /\ ~uploading
  /\ files # <<>>
  /\ uploading' = TRUE
  /\ upload' = [files |-> files, got |-> <<>>,
                 room |-> RoomId(user.id, channelId, dmId)]
  /\ out' = "none"
  /\ UNCHANGED <<channelId, dmId, user, loading, message, messages, typingUsers,
                 attachments, channelRef, typingTimeoutRef, setups,
                 expiryTimers, pubs, sent, lastSignal,
                 rr, dg, nt>>

\* blink.storage.upload resolves for the next file of the loop; after the
\* last one: setAttachments(prev => [...prev, ...newAttachments]) and the
\* finally block.
UploadOk ==
  /\ upload.files # <<>>
  /\ LET got == Append(upload.got, Attachment(Head(upload.files))) IN
     IF Len(upload.files) = 1
     THEN /\ Len(attachments) + Len(got) <= MaxStage
          /\ attachments' = attachments \o got
          /\ uploading' = FALSE
          /\ upload' = NoUpload
     ELSE /\ upload' = [upload EXCEPT !.files = Tail(upload.files), !.got = got]
          /\ UNCHANGED <<attachments, uploading>>
  /\ out' = "none"
  /\ UNCHANGED <<channelId, dmId, user, loading, message, messages, typingUsers,
                 channelRef, typingTimeoutRef, setups, expiryTimers, pubs, sent, lastSignal,
                 rr, dg, nt>>


\* A faulty variant: a failed upload leaves the busy flag set.
UploadFailStaysBusy ==
  /\ upload.files # <<>>
  /\ upload' = NoUpload
  /\ out' = "uploadError"
  /\ UNCHANGED <<channelId, dmId, user, loading, message, messages, typingUsers,
                 attachments, uploading, channelRef, typingTimeoutRef, setups,
                 expiryTimers, pubs, sent, lastSignal,
                 rr, dg, nt>>

\* blink.storage.upload rejects: the catch and the finally block.
UploadFail ==
  /\ upload.files # <<>>
  /\ uploading' = FALSE
  /\ upload' = NoUpload
  /\ out' = "uploadError"
  /\ UNCHANGED <<channelId, dmId, user, loading, message, messages, typingUsers,
                 attachments, channelRef, typingTimeoutRef, setups,
                 expiryTimers, pubs, sent, lastSignal,
                 rr, dg, nt>>

\* removeAttachment(index): prev.filter((_, i) => i !== index)
RemoveAttachment(i) ==
  /\ ~loading
  /\ i \in 1..Len(attachments)
  /\ attachments' = [k \in 1..(Len(attachments) - 1) |->
                       IF k < i THEN attachments[k] ELSE attachments[k + 1]]
  /\ out' = "none"
  /\ UNCHANGED <<channelId, dmId, user, loading, message, messages, typingUsers,
                 uploading, channelRef, typingTimeoutRef, setups, expiryTimers,
                 pubs, sent, upload, lastSignal,
                 rr, dg, nt>>

(***************************************************************************)
(* The transcript view as a whole.                                         *)
(***************************************************************************)
ChatNext ==
  \/ \E c \in Channels : HandleChannelSelect(c)
  \/ \E d \in DMs : HandleDMSelect(d)
  \/ \E st \in AuthStates : AuthStateChanged(st)
  \/ \E g \in 1..Len(setups), on \in BOOLEAN : SubscribeOk(g, on)
  \/ \E g \in 1..Len(setups) : SubscribeFail(g)
  \/ \E g \in 1..Len(setups) : \E es \in Backlogs(g) : BacklogOk(g, es)
  \/ \E g \in 1..Len(setups) : BacklogFail(g)
  \/ \E g \in 1..Len(setups) : \E e \in ChatEvents(g) : OnMessageChat(g, e)
  \/ \E g \in 1..Len(setups) : \E e \in TypingEvents : OnMessageTyping(g, e)
  \/ \E i \in 1..Len(expiryTimers) : ExpiryFire(i)
  \/ \E value \in Texts : HandleMessageChange(value)
  \/ StopTimerFire
  \/ Tick
  \/ HandleKeyPress
  \/ SendButtonClick
  \/ \E p \in pubs : PublishOk(p)
  \/ \E p \in pubs, now \in ClockValues : PublishFail(p, now)
  \/ \E files \in Selections : HandleFileUpload(files)
  \/ UploadOk
  \/ UploadFail
  \/ \E i \in 1..Len(attachments) : RemoveAttachment(i)

Init == ChatInit /\ rr = IdleRR /\ dg = IdleDG /\ nt = IdleNT

Next == ChatNext

Spec == Init /\ [][Next]_vars

\* What a step may emit: a typing signal or a chat payload handed to the
\* transport, a fallback message, a send refused by its guard, a live event
\* dropped as a duplicate, a typing name removed by its timeout, an upload
\* error logged.
Outputs == {"none", "start", "stop", "chat", "rejected", "fallback",
            "discarded", "expired", "uploadError"}

(***************************************************************************)
(* The specifications the properties are checked under.  Each takes the    *)
(* actions that write the variables its properties read; an action left    *)
(* out is an event of the user or of the transport that does not happen.   *)
(***************************************************************************)

\* The transcript: subscription, backlog, live events, sends and their
\* outcomes, under room changes.  The stage stays empty.
TranscriptNext ==
  \/ \E c \in Channels : HandleChannelSelect(c)
  \/ \E d \in DMs : HandleDMSelect(d)
  \/ \E st \in AuthStates : AuthStateChanged(st)
  \/ \E g \in 1..Len(setups), on \in BOOLEAN : SubscribeOk(g, on)
  \/ \E g \in 1..Len(setups) : SubscribeFail(g)
  \/ \E g \in 1..Len(setups) : \E es \in Backlogs(g) : BacklogOk(g, es)
  \/ \E g \in 1..Len(setups) : BacklogFail(g)
  \/ \E g \in 1..Len(setups) : \E e \in ChatEvents(g) : OnMessageChat(g, e)
  \/ \E value \in Texts : HandleMessageChange(value)
  \/ HandleKeyPress
  \/ \E p \in pubs : PublishOk(p)
  \/ \E p \in pubs, now \in ClockValues : PublishFail(p, now)

SpecTranscript == Init /\ [][TranscriptNext]_vars

\* The composer in one room: text, stage, uploads, sends and their outcomes,
\* with live events filling the transcript.
ComposerNext ==
  \/ \E st \in AuthStates : AuthStateChanged(st)
  \/ \E g \in 1..Len(setups), on \in BOOLEAN : SubscribeOk(g, on)
  \/ \E g \in 1..Len(setups) : \E e \in ChatEvents(g) : OnMessageChat(g, e)
  \/ \E value \in Texts : HandleMessageChange(value)
  \/ HandleKeyPress
  \/ SendButtonClick
  \/ \E p \in pubs : PublishOk(p)
  \/ \E p \in pubs, now \in ClockValues : PublishFail(p, now)
  \/ \E files \in Selections : HandleFileUpload(files)
  \/ UploadOk
  \/ UploadFail
  \/ \E i \in 1..Len(attachments) : RemoveAttachment(i)

SpecComposer == Init /\ [][ComposerNext]_vars

\* Typing: the debouncer of the composer and the typing set, under room
\* changes.
TypingNext ==
  \/ \E c \in Channels : HandleChannelSelect(c)
  \/ \E d \in DMs : HandleDMSelect(d)
  \/ \E st \in AuthStates : AuthStateChanged(st)
  \/ \E g \in 1..Len(setups), on \in BOOLEAN : SubscribeOk(g, on)
  \/ \E g \in 1..Len(setups) : SubscribeFail(g)
  \/ \E g \in 1..Len(setups) : \E e \in TypingEvents : OnMessageTyping(g, e)
  \/ \E i \in 1..Len(expiryTimers) : ExpiryFire(i)
  \/ \E value \in Texts : HandleMessageChange(value)
  \/ StopTimerFire
  \/ Tick

SpecTyping == Init /\ [][TypingNext]_vars

\* The event loop runs every timeout that is due, and time passes.
SpecTypingFair ==
  /\ SpecTyping
  /\ WF_vars(Tick)
  /\ WF_vars(StopTimerFire)
  /\ WF_vars(\E i \in 1..Len(expiryTimers) : ExpiryFire(i))


\* The view under room changes: subscription, backlog, live chat and typing
\* events, auto-expiry, uploads and the stage.  Nothing is typed or sent.
SwitchNext ==
  \/ \E c \in Channels : HandleChannelSelect(c)
  \/ \E d \in DMs : HandleDMSelect(d)
  \/ \E st \in AuthStates : AuthStateChanged(st)
  \/ \E g \in 1..Len(setups), on \in BOOLEAN : SubscribeOk(g, on)
  \/ \E g \in 1..Len(setups) : SubscribeFail(g)
  \/ \E g \in 1..Len(setups) : \E es \in Backlogs(g) : BacklogOk(g, es)
  \/ \E g \in 1..Len(setups) : BacklogFail(g)
  \/ \E g \in 1..Len(setups) : \E e \in ChatEvents(g) : OnMessageChat(g, e)
  \/ \E g \in 1..Len(setups) : \E e \in TypingEvents : OnMessageTyping(g, e)
  \/ \E i \in 1..Len(expiryTimers) : ExpiryFire(i)
  \/ Tick
  \/ \E files \in Selections : HandleFileUpload(files)
  \/ UploadOk
  \/ UploadFail
  \/ \E i \in 1..Len(attachments) : RemoveAttachment(i)

SpecSwitch == Init /\ [][SwitchNext]_vars

(***************************************************************************)
(* Room resolver harness: two participants resolve their common room.      *)
(***************************************************************************)
IdChars == {"-", "1", "a"}

\* The user ids the harness draws: non-empty strings of at most MaxIdLen
\* characters.
Ids == UNION {[1..n -> IdChars] : n \in 1..MaxIdLen}

RoomInit ==
  /\ ChatInit
  /\ dg = IdleDG
  /\ nt = IdleNT
  /\ rr \in {[a |-> x, b |-> y, ab |-> <<>>, ba |-> <<>>] : x, y \in Ids}

\* a resolves the room with peer b, and b with peer a, no channel selected.
Resolve ==
  /\ rr.ab = <<>>
  /\ rr' = [rr EXCEPT !.ab = RoomId(rr.a, <<>>, rr.b),
                      !.ba = RoomId(rr.b, <<>>, rr.a)]
  /\ UNCHANGED <<chatVars, dg, nt>>

SpecRoom == RoomInit /\ [][Resolve]_vars

(***************************************************************************)
(* Date grouping: formatDate and the showDate of the render.  A timestamp  *)
(* is the calendar date it falls on in the viewer's zone.                   *)
(***************************************************************************)
Date(y, m, d) == [y |-> y, m |-> m, d |-> d]

IsLeap(y) == (y % 4 = 0 /\ y % 100 # 0) \/ y % 400 = 0

DaysInMonth(y, m) ==
  IF m = 2 THEN (IF IsLeap(y) THEN 29 ELSE 28)
  ELSE IF m \in {4, 6, 9, 11} THEN 30 ELSE 31

\* yesterday.setDate(yesterday.getDate() - 1)
Yesterday(t) ==
  IF t.d > 1 THEN Date(t.y, t.m, t.d - 1)
  ELSE IF t.m > 1 THEN Date(t.y, t.m - 1, DaysInMonth(t.y, t.m - 1))
  ELSE Date(t.y - 1, 12, 31)

\* formatDate(date) on the day `today`: 'Today', 'Yesterday', or the month
\* and the day of the month (toLocaleDateString with month and day only).
FormatDate(date, today) ==
  IF date = today THEN [kind |-> "Today", m |-> 0, d |-> 0]
  ELSE IF date = Yesterday(today) THEN [kind |-> "Yesterday", m |-> 0, d |-> 0]
  ELSE [kind |-> "MonthDay", m |-> date.m, d |-> date.d]

\* const showDate = index === 0 ||
\*   formatDate(msg.timestamp) !== formatDate(messages[index - 1].timestamp)
\* for the message at position i (from 1) of the transcript's dates.
ShowDate(dates, i, today) ==
  i = 1 \/ FormatDate(dates[i], today) # FormatDate(dates[i - 1], today)

\* The days the harness renders on, and the dates of the messages.
Todays == {Date(2024, 3, 1), Date(2024, 3, 10)}
MessageDates == {Date(2023, 3, 5), Date(2024, 2, 29), Date(2024, 3, 1),
                 Date(2024, 3, 5)}

DateInit ==
  /\ ChatInit
  /\ rr = IdleRR
  /\ nt = IdleNT
  /\ dg \in {[today |-> t, dates |-> ds, show |-> <<>>, rendered |-> FALSE] :
               t \in Todays,
               ds \in UNION {[1..n -> MessageDates] : n \in 0..MaxDates}}

\* One render of the transcript.
Render ==
  /\ ~dg.rendered
  /\ dg' = [dg EXCEPT !.rendered = TRUE,
                      !.show = [i \in 1..Len(dg.dates) |->
                                  ShowDate(dg.dates, i, dg.today)]]
  /\ UNCHANGED <<chatVars, rr, nt>>

SpecDate == DateInit /\ [][Render]_vars


(***************************************************************************)
(* MessageNotification: one instance, from mount to after its discard.     *)
(* chatVars, rr and dg stay in their initial state.                        *)
(***************************************************************************)
AnimateMs == 100
DismissMs == 5000
CloseDelayMs == 300

\* Removes entry i of a sequence.
Drop(seq, i) ==
  [k \in 1..(Len(seq) - 1) |-> IF k < i THEN seq[k] ELSE seq[k + 1]]

\* The component mounts and its effect runs: both timers are armed.
Mount ==
  /\ nt = IdleNT
  /\ nt' = [nt EXCEPT !.mounted = TRUE, !.timer = AnimateMs,
                      !.dismissTimer = DismissMs]
  /\ UNCHANGED <<chatVars, rr, dg>>

\* The parent renders with another onClose: the cleanup of the effect clears
\* both timers and the effect arms them again.
OnCloseChanged ==
  /\ nt.mounted
  /\ nt' = [nt EXCEPT !.timer = AnimateMs, !.dismissTimer = DismissMs]
  /\ UNCHANGED <<chatVars, rr, dg>>

\* setTimeout(() => setIsVisible(true), 100) fires.
AnimateIn ==
  /\ nt.timer = 0
  /\ nt' = [nt EXCEPT !.isVisible = TRUE, !.timer = NoTimer]
  /\ UNCHANGED <<chatVars, rr, dg>>

\* setIsVisible(false); setTimeout(onClose, 300)
StartClose(n) ==
  [n EXCEPT !.isVisible = FALSE,
            !.closeTimers = Append(@, CloseDelayMs)]

\* The auto-dismiss timer fires.
AutoDismiss ==
  /\ nt.dismissTimer = 0
  /\ nt.closed + Len(nt.closeTimers) < MaxCloses
  /\ nt' = [StartClose(nt) EXCEPT !.dismissTimer = NoTimer]
  /\ UNCHANGED <<chatVars, rr, dg>>

\* handleClose: a click on the close button.
HandleClose ==
  /\ nt.mounted
  /\ nt.closed + Len(nt.closeTimers) < MaxCloses
  /\ nt' = StartClose(nt)
  /\ UNCHANGED <<chatVars, rr, dg>>

\* setTimeout(onClose, 300) fires: onClose is invoked.
CloseFire(i) ==
  /\ i \in 1..Len(nt.closeTimers)
  /\ nt.closeTimers[i] = 0
  /\ nt' = [nt EXCEPT !.closeTimers = Drop(@, i),
                      !.closed = @ + 1,
                      !.closedAfterDiscard = @ \/ ~nt.mounted]
  /\ UNCHANGED <<chatVars, rr, dg>>

\* The parent discards the notification: the cleanup of the effect runs,
\* clearTimeout(timer); clearTimeout(dismissTimer).
Discard ==
  /\ nt.mounted
  /\ nt' = [nt EXCEPT !.mounted = FALSE, !.timer = NoTimer,
                      !.dismissTimer = NoTimer]
  /\ UNCHANGED <<chatVars, rr, dg>>

\* Time passes for the notification, up to the next timer that is due.
NotifyTickMs == AnimateMs

NotifyTick ==
  LET Armed == {nt.timer, nt.dismissTimer} \cup
               {nt.closeTimers[i] : i \in 1..Len(nt.closeTimers)} IN
  /\ Armed # {NoTimer}
  /\ 0 \notin Armed
  /\ nt' = [nt EXCEPT
              !.timer = IF @ = NoTimer THEN @ ELSE @ - NotifyTickMs,
              !.dismissTimer = IF @ = NoTimer THEN @ ELSE @ - NotifyTickMs,
              !.closeTimers = [i \in 1..Len(@) |-> @[i] - NotifyTickMs]]
  /\ UNCHANGED <<chatVars, rr, dg>>

NotifyNext ==
  \/ Mount
  \/ OnCloseChanged
  \/ AnimateIn
  \/ AutoDismiss
  \/ HandleClose
  \/ \E i \in 1..Len(nt.closeTimers) : CloseFire(i)
  \/ Discard
  \/ NotifyTick

SpecNotify == Init /\ [][NotifyNext]_vars

(***************************************************************************)
(* Properties.                                                             *)
(***************************************************************************)
CountId(ms, id) == Cardinality({i \in 1..Len(ms) : ms[i].id = id})

CountOrigin(ms, o) == Cardinality({i \in 1..Len(ms) : ms[i].origin = o})

ActiveRoom == RoomId(user.id, channelId, dmId)

Blank == Trim(message) = <<>> /\ attachments = <<>>

Names == {Peer.displayName}

Visible(n) == Includes(typingUsers, n)

\* C1: with no channel selected, the room id user a computes for peer b is
\* the room id user b computes for peer a, for any two distinct user ids.
C1_RoomIdSymmetry ==
  (rr.ab # <<>> /\ rr.a # rr.b) => rr.ab = rr.ba

\* Both have resolved, and the sort has swapped a's pair.
C1_Witness ==
  /\ rr.ab # <<>>
  /\ StrLess(rr.b, rr.a)
  /\ rr.ab = <<"d", "m", "-">> \o rr.b \o <<"-">> \o rr.a

\* C2: a live chat event whose id the transcript already holds leaves the
\* transcript unchanged, and one whose id it does not hold leaves exactly one
\* entry with that id: two deliveries of an id give one entry.
C2_LiveDedup ==
  [][\A g \in 1..Len(setups) : \A e \in ChatEvents(g) :
       OnMessageChat(g, e) =>
         /\ HasId(messages, e.id) => messages' = messages
         /\ ~HasId(messages, e.id) => CountId(messages', e.id) = 1]_vars

\* The peer's message was delivered again and dropped.
C2_Witness ==
  /\ out = "discarded"
  /\ CountId(messages, PeerChat.id) = 1

\* C3: when the transcript holds one entry for a send and the live stream
\* delivers the event of that send, the transcript still holds one entry for
\* it: a fallback followed by its live echo is one entry.
C3_EchoDedup ==
  [][\A g \in 1..Len(setups) : \A e \in ChatEvents(g) :
       (/\ OnMessageChat(g, e)
        /\ e.origin # 0
        /\ CountOrigin(messages, e.origin) = 1) =>
          CountOrigin(messages', e.origin) = 1]_vars

\* C4: when the backlog fetch of a setup whose room is no longer the active
\* one completes, with a result or with the failure fallback, the transcript
\* is left as it is.
C4_RoomSwitchIsolation ==
  [][\A g \in 1..Len(setups) :
       (/\ setups[g].released
        /\ setups[g].room # ActiveRoom
        /\ setups[g].pc = "fetching"
        /\ setups'[g].pc = "done") => messages' = messages]_vars

\* C5: a send records the composer's text and stage; when its publish fails,
\* the transcript gains one entry at its end, own-authored, with the text and
\* the attachments recorded, and the text input and the stage are empty.
C5_SendFallback ==
  [][/\ out' = "chat" =>
          /\ Len(sent') = Len(sent) + 1
          /\ sent'[Len(sent')].content = message
          /\ sent'[Len(sent')].attachments = attachments
     /\ out' = "fallback" =>
          \E p \in pubs :
            /\ pubs' = pubs \ {p}
            /\ Len(messages') = Len(messages) + 1
            /\ SubSeq(messages', 1, Len(messages)) = messages
            /\ messages'[Len(messages')].isOwn
            /\ messages'[Len(messages')].content = sent[p.sid].content
            /\ messages'[Len(messages')].attachments = sent[p.sid].attachments
            /\ message' = <<>>
            /\ attachments' = <<>>]_vars

\* A fallback with an attachment was appended after another entry, and the
\* composer is empty.
C5_Witness ==
  /\ out = "fallback"
  /\ Len(messages) = 2
  /\ messages[2].isOwn
  /\ messages[2].attachments # <<>>
  /\ message = <<>>
  /\ attachments = <<>>

\* C6: a keystroke arms the stop timer for 1000 ms; it publishes a start if
\* no stop timer was armed and nothing otherwise; a stop is published when,
\* and only when, the stop timer fires.
C6_TypingDebounce ==
  [][/\ message' # message =>
          /\ typingTimeoutRef' = StopDelayMs
          /\ out' = IF typingTimeoutRef = NoTimer THEN "start" ELSE "none"
     /\ (out' = "stop") <=> (typingTimeoutRef = 0 /\ typingTimeoutRef' = NoTimer)]_vars

\* C7: a name in the typing set has a pending expiry timeout, armed at most
\* 3000 ms ago, and a name in the typing set is eventually out of it, in the
\* runs where no stop event and no room change removes it too.
C7_TypingAutoExpiry ==
  /\ [](\A n \in Names : Visible(n) =>
          \E i \in 1..Len(expiryTimers) :
            /\ expiryTimers[i].name = n
            /\ expiryTimers[i].left \in 0..ExpiryMs)
  /\ \A n \in Names : Visible(n) ~> ~Visible(n)

\* The timeout has removed the peer from the typing set.
C7_Witness ==
  /\ out = "expired"
  /\ ~Visible(Peer.displayName)

\* C8: the first message gets a date separator, and a later one gets it
\* exactly when its calendar date differs from the previous message's.
C8_DateGrouping ==
  dg.rendered =>
    \A i \in 1..Len(dg.dates) :
      dg.show[i] <=> (i = 1 \/ dg.dates[i] # dg.dates[i - 1])

\* C9: a send invoked while the trimmed text and the stage are empty hands
\* nothing to the transport and changes neither the transcript nor the
\* composer.
C9_SendPrecondition ==
  [][(Blank /\ out' \in {"chat", "rejected"}) =>
       /\ out' = "rejected"
       /\ UNCHANGED <<messages, message, attachments, pubs, sent>>]_vars

\* A send of a text of white space was refused, with a channel and a user.
C9_Witness ==
  /\ out = "rejected"
  /\ message = <<" ">>
  /\ attachments = <<>>
  /\ channelRef # 0
  /\ user.id # <<>>
  /\ pubs = {}

\* C10: a chat payload is handed to the transport only when the subscribe
\* call of the current channel has resolved.
C10_SendRequiresLive ==
  [][out' = "chat" =>
       (channelRef # 0 /\ setups[channelRef].pc \in {"fetching", "done"})]_vars

\* C11: when the publish of a send resolves, the text input and the stage
\* are emptied, a typing stop is published, and the transcript is left as it
\* is.
C11_PublishSuccess ==
  [][\A p \in pubs :
       PublishOk(p) =>
         /\ message' = <<>>
         /\ attachments' = <<>>
         /\ out' = "stop"
         /\ messages' = messages]_vars

\* The publish of a send with an attachment has resolved.
C11_Witness ==
  /\ out = "stop"
  /\ pubs = {}
  /\ Len(sent) = 1
  /\ sent[1].attachments # <<>>
  /\ message = <<>>
  /\ attachments = <<>>
  /\ messages = <<>>

\* C12: a step that changes the room selection calls unsubscribe on the
\* channel of the previous room and leaves the transcript, the stage and the
\* typing set empty.
C12_TearDown ==
  [][<<channelId', dmId'>> # <<channelId, dmId>> =>
       /\ channelRef # 0 =>
            (setups'[channelRef].released /\ ~setups'[channelRef].subscribed)
       /\ messages' = <<>>
       /\ attachments' = <<>>
       /\ typingUsers' = <<>>]_vars

\* Just after a change of room: the first room had its backlog and a typing
\* start whose timeout is still whole, the second has not subscribed yet.
C12_Witness ==
  /\ Len(setups) = 2
  /\ channelRef = 2
  /\ setups[1].released
  /\ setups[1].pc = "done"
  /\ setups[2].pc = "subscribing"
  /\ \E i \in 1..Len(expiryTimers) :
       expiryTimers[i].room = setups[1].room /\ expiryTimers[i].left = ExpiryMs
  /\ messages = <<>>
  /\ attachments = <<>>
  /\ typingUsers = <<>>

\* C13: a chat or typing event delivered on the channel of a setup that was
\* cleaned up, and whose room is not the active one, changes neither the
\* transcript nor the typing set.
C13_NoStaleLive ==
  [][\A g \in 1..Len(setups) :
       (setups[g].released /\ setups[g].room # ActiveRoom) =>
         /\ \A e \in ChatEvents(g) : OnMessageChat(g, e) => messages' = messages
         /\ \A e \in TypingEvents :
              OnMessageTyping(g, e) => typingUsers' = typingUsers]_vars

\* C14: when the backlog fetch of the active room completes, with a result
\* or with the failure fallback, every chat event of the room that the
\* transcript held before is in the transcript once.
C14_BacklogLiveMerge ==
  [][\A g \in 1..Len(setups) :
       (/\ g = channelRef
        /\ ~setups[g].released
        /\ setups[g].pc = "fetching"
        /\ setups'[g].pc = "done") =>
          \A e \in ChatEvents(g) :
            HasId(messages, e.id) => CountId(messages', e.id) = 1]_vars

\* C15: when the backlog fetch of the active room fails, the transcript is
\* the welcome message alone, the setup ends normally, and the channel stays
\* subscribed and current, so live events are delivered and sends accepted.
C15_BacklogFailure ==
  [][\A g \in 1..Len(setups) :
       (g = channelRef /\ BacklogFail(g)) =>
         /\ messages' = <<WelcomeMessage>>
         /\ setups'[g].pc = "done"
         /\ setups'[g].subscribed
         /\ channelRef' = g]_vars

\* After the welcome message, a send of the user was published and came
\* back through the live stream.
C15_Witness ==
  /\ Len(messages) = 2
  /\ messages[1] = WelcomeMessage
  /\ messages[2].origin = 1
  /\ messages[2].id = ServerId(1)
  /\ messages[2].isOwn

\* C16: a chat payload is handed to the transport only while no upload is
\* in progress, whether send is triggered by the button or by Enter.
C16_UploadDisablesSend ==
  [][out' = "chat" => ~uploading]_vars

\* C17: when a handleFileUpload call ends, the stage has gained, in order,
\* one attachment for every file of the selection whose upload succeeded,
\* whatever became of the other files.
C17_UploadStaging ==
  [][(uploading /\ ~uploading') =>
       \E last \in {<<>>, <<Attachment(Head(upload.files))>>} :
         /\ (last = <<>>) <=> UploadFail
         /\ attachments' = attachments \o upload.got \o last]_vars

\* C18: when an upload fails, the error is logged, the stage is left as it
\* is, so without the failed file and with the entries it had, and the busy
\* flag is reset.
C18_UploadFailure ==
  [][out' = "uploadError" =>
       /\ uploading
       /\ ~uploading'
       /\ attachments' = attachments]_vars

\* An upload has failed with an entry already on the stage.
C18_Witness ==
  /\ out = "uploadError"
  /\ attachments # <<>>
  /\ ~uploading
  /\ upload = NoUpload

\* C19: when a handleFileUpload call that was started in another room than
\* the active one ends, the stage is left as it is.
C19_StaleUpload ==
  [][(uploading /\ ~uploading' /\ upload.room # ActiveRoom) =>
       attachments' = attachments]_vars

\* C20: an auto-expiry timeout armed in another room session than the active
\* one does not change the typing set when its time comes.
C20_TimersCleared ==
  [][\A i \in 1..Len(expiryTimers) :
       (ExpiryFire(i) /\ expiryTimers[i].room # ActiveRoom) =>
         typingUsers' = typingUsers]_vars

\* C21: once a MessageNotification is discarded, none of its timers fires:
\* onClose is not invoked and the visibility does not change.
C21_NotificationTimersCleared ==
  /\ ~nt.closedAfterDiscard
  /\ (~nt.mounted /\ nt # IdleNT) => (nt.timer = NoTimer /\ nt.dismissTimer = NoTimer)

\* C30: onClose of one MessageNotification is invoked at most once.
C30_CloseOnce ==
  nt.closed <= 1

\* C22: exactly one of the channel selection and the direct-message
\* selection is non-empty; a step that selects a channel leaves the DM
\* selection empty and a step that selects a DM leaves the channel selection
\* empty.
C22_SelectionExclusive ==
  /\ []((channelId = <<>>) # (dmId = <<>>))
  /\ [][/\ (channelId' # channelId /\ channelId' # <<>>) => dmId' = <<>>
        /\ (dmId' # dmId /\ dmId' # <<>>) => channelId' = <<>>]_vars

\* A direct message was selected after the initial channel, and a setup was
\* made for it.
C22_Witness ==
  /\ dmId \in DMs
  /\ channelId = <<>>
  /\ channelRef # 0
  /\ setups[channelRef].room = RoomId(user.id, <<>>, dmId)

\* C23: the view holds a channel exactly when a user id and a room selection
\* are both there; a channel is created only by a step that ends with both,
\* one channel at a time, for the room they resolve to.
C23_SubscriptionGating ==
  /\ [](channelRef # 0 <=> (user.id # <<>> /\ (channelId # <<>> \/ dmId # <<>>)))
  /\ [][Len(setups') # Len(setups) =>
          /\ user'.id # <<>>
          /\ channelId' # <<>> \/ dmId' # <<>>
          /\ Len(setups') = Len(setups) + 1
          /\ channelRef' = Len(setups')
          /\ setups'[channelRef'].room = RoomId(user'.id, channelId', dmId')
          /\ setups'[channelRef'].pc = "subscribing"]_vars

\* The room was changed while no user was signed in, which made no channel;
\* the sign-in then made the first channel, for the room selected by then.
C23_Witness ==
  /\ Len(setups) = 1
  /\ channelRef = 1
  /\ <<channelId, dmId>> # <<General, <<>>>>
  /\ setups[1].room = RoomId(user.id, channelId, dmId)

\* C24: at most one channel of the view is subscribed at any moment, and a
\* channel that was cleaned up is not subscribed, also when its subscribe
\* call resolves after the cleanup.
C24_SingleSubscription ==
  /\ Cardinality({g \in 1..Len(setups) : setups[g].subscribed}) <= 1
  /\ \A g \in 1..Len(setups) : setups[g].released => ~setups[g].subscribed

\* C25: as long as the view has stayed in one room, no two entries of the
\* transcript have the same id.
C25_IdUniqueness ==
  Len(setups) <= 1 => DistinctIds(messages)

\* C26: when a publish that was issued in another room than the active one
\* fails, the transcript, the text input and the stage are left as they are.
C26_FailedPublishAfterSwitch ==
  [][out' = "fallback" =>
       \A p \in pubs \ pubs' :
         sent[p.sid].room # ActiveRoom =>
           /\ messages' = messages
           /\ message' = message
           /\ attachments' = attachments]_vars

\* C27: the typing signals published by the composer alternate: a stop is
\* published only after a start, and no start follows a start without a stop
\* between them.
C27_SignalsAlternate ==
  [][/\ out' = "stop" => lastSignal = "start"
     /\ out' = "start" => lastSignal # "start"]_vars

\* C28: a name stays visible when one of its expiry timers runs out while a
\* later start of the same name, received in the room shown, is less than
\* 3000 ms old.
C28_ExpiryRelativeToLatestStart ==
  [][\A i \in 1..Len(expiryTimers) :
       ExpiryFire(i) =>
         \A n \in Names :
           (/\ Visible(n)
            /\ \E j \in 1..Len(expiryTimers) :
                 /\ j > i
                 /\ expiryTimers[j].name = n
                 /\ expiryTimers[j].left > 0
                 /\ expiryTimers[j].room = ActiveRoom)
           => Visible(n)']_vars

\* C29: a send that directly follows a send, with the first publish still in
\* flight and the composer untouched between them, publishes nothing: each
\* composed message is published at most once.
C29_NoDoubleSend ==
  [][(/\ out = "chat"
      /\ \E p \in pubs : p.sid = Len(sent)
      /\ message' = message
      /\ attachments' = attachments)
     => Len(sent') = Len(sent)]_vars

====
